---- MODULE Spec2Model ----
(***************************************************************************)
(* dtop: multi-host container dashboard (Go, Bubble Tea).                  *)
(*                                                                         *)
(* The module models                                                       *)
(*   - start-up (docker.NewMultiClient),                                   *)
(*   - the per-host goroutines of Client.WatchContainers and               *)
(*     Client.WatchContainerStats with their two shared unbuffered         *)
(*     channels, and the streamStats goroutines,                           *)
(*   - the Bubble Tea runtime (commands run in goroutines, their results   *)
(*     are delivered to Update one at a time),                             *)
(*   - ui.App.Update (page switch) and the list page's Model.Update,       *)
(*   - the table component (cursor, rows, rendered window, the caches the  *)
(*     column renderers fill).                                             *)
(*                                                                         *)
(* The specifications share the variables:                                 *)
(*   SpecUI      the list page driven directly by messages and keys,       *)
(*   Spec        the program as main runs it, the list page in front,      *)
(*   SpecApp     the program with the user switching pages,                *)
(*   FairSpec    SpecApp with the fairness the schedulers give,            *)
(*   SpecCancel  the program whose context is cancelled,                   *)
(*   SpecView    the list page from any store, driven by event updates,    *)
(*   SpecStat    one row of the store and the next sample of its stream,   *)
(*   SpecDestroy the watchers while an engine removes a container,         *)
(*   SpecLogView the log page driven directly by entries and keys,         *)
(*   SpecLog     the log streams while the user opens and leaves the page, *)
(*   SpecLogSwitch  the same with two containers to choose from,           *)
(*   SpecTable   the table component under stores of up to three rows.     *)
(***************************************************************************)
EXTENDS Integers, Sequences, FiniteSets, Bags, TLC

\* ------------------------------------------------------------------ bounds
MaxEvents == 1       \* engine events (start/stop/die) per host
MaxWaiters == 2      \* cap on concurrently armed readers of one channel
MaxShow == 2         \* ShowContainerMsg messages in flight at once
MaxStreams == 2      \* log pages opened (one StreamLogs call each)
MaxLines == 2        \* lines a log stream yields before it ends

\* ------------------------------------------------------- the environment
Hosts == {"h1", "h2"}

\* 12-character container IDs, as strings of character codes (all of the
\* same length, here 1); <<3>> is a container that host h2 creates later
IDs == {<<1>>, <<2>>, <<3>>}

\* the containers each engine lists (ContainerList with All: true); the ID
\* <<1>> exists on both hosts
EngineIDs == [h \in Hosts |-> IF h = "h1" THEN {<<1>>, <<2>>} ELSE {<<1>>}]

\* name and creation time the engine reports on inspect
EngineName == [h \in Hosts |-> [id \in IDs |->
                 IF h = "h1" THEN (IF id = <<1>> THEN <<7, 7>> ELSE <<7>>)
                             ELSE (IF id = <<3>> THEN <<9>> ELSE <<8>>)]]

EngineCreated == [h \in Hosts |-> [id \in IDs |->
                 IF h = "h1" THEN (IF id = <<1>> THEN 1 ELSE 2)
                             ELSE (IF id = <<3>> THEN 1 ELSE 2)]]

States == {"running", "exited"}

\* the containers an engine can report on inspect, the later ones included
KnownIDs == [h \in Hosts |-> IF h = "h2" THEN EngineIDs[h] \cup {<<3>>}
                                         ELSE EngineIDs[h]]

\* the hosts in the order of Client.hosts
HostOrder == <<"h1", "h2">>

\* the containers of all engines, as (host, ID) pairs; each running one
\* gets a streamStats goroutine
Streamers == {<<h, id>> \in Hosts \X IDs : id \in EngineIDs[h]}

\* the containers that are started and stopped while the program runs
Eventful == {<<"h1", <<2>>>>}

\* the state of the containers when the program starts
EngineState0 ==
  [s \in Streamers |-> IF s = <<"h1", <<2>>>> THEN "exited" ELSE "running"]

\* ------------------------------------------------------------- helpers
Max(a, b) == IF a > b THEN a ELSE b

Min(a, b) == IF a < b THEN a ELSE b

Range(s) == {s[i] : i \in 1..Len(s)}

\* Go's string comparison a < b (bytewise lexicographic)
RECURSIVE StrLess(_, _)
StrLess(a, b) ==
  IF b = <<>> THEN FALSE
  ELSE IF a = <<>> THEN TRUE
  ELSE IF Head(a) # Head(b) THEN Head(a) < Head(b)
  ELSE StrLess(Tail(a), Tail(b))

\* all sequences that list every element of the finite set S exactly once
RECURSIVE Perms(_)
Perms(S) ==
  IF S = {} THEN {<<>>}
  ELSE UNION {{<<x>> \o p : p \in Perms(S \ {x})} : x \in S}


\* Go's integer division (truncates toward zero)
GoDiv(a, b) == IF a >= 0 THEN a \div b ELSE -((-a) \div b)

\* ----------------------------------------------- containers and samples
\* docker.Container as built by newContainerFromJSON; ver is a history
\* field: the position of the carrying update in its watcher's output
Container(h, id, st, v) ==
  [ID |-> id, Host |-> h, Name |-> EngineName[h][id],
   CreatedAt |-> EngineCreated[h][id], State |-> st, ver |-> v]

\* the frames every stats stream decodes before it ends: CPU and memory
\* percentages, the read time in half seconds, cumulative network counters
TicksPerSecond == 2

\* the frames a stats stream decodes: CPU percentage, memory usage and
\* memory percentage; the second frame is an empty one
Decoded ==
  << [cpu |-> 50, mem |-> 0, memPercent |-> 0,
      time |-> 2, rx |-> 100, tx |-> 10],
     [cpu |-> 0, mem |-> 0, memPercent |-> 0,
      time |-> 3, rx |-> 100, tx |-> 10],
     [cpu |-> 0, mem |-> 3, memPercent |-> 40,
      time |-> 5, rx |-> 60, tx |-> 70] >>

\* a streamStats that forwards a frame only if both values are positive
ForwardedIfBoth(f) == f.cpu > 0 /\ f.mem > 0

\* streamStats: "if cpuPercent > 0 || mem > 0"
Forwarded(f) == f.cpu > 0 \/ f.mem > 0

\* the frames streamStats sends, in order
SentFrames == SelectSeq(Decoded, Forwarded)

FrameCPU == [k \in 1..Len(SentFrames) |-> SentFrames[k].cpu]

FrameMem == [k \in 1..Len(SentFrames) |-> SentFrames[k].memPercent]

FrameTime == [k \in 1..Len(SentFrames) |-> SentFrames[k].time]

FrameRx == [k \in 1..Len(SentFrames) |-> SentFrames[k].rx]

FrameTx == [k \in 1..Len(SentFrames) |-> SentFrames[k].tx]

\* docker.ContainerStat; src and seq are history fields naming the
\* streamer that produced the sample and its position in that stream
ContainerStat(h, id, k) ==
  [ID |-> id, CPUPercent |-> FrameCPU[k], MemoryPercent |-> FrameMem[k],
   Time |-> FrameTime[k], TotalNetworkReceived |-> FrameRx[k],
   TotalNetworkTransmitted |-> FrameTx[k], src |-> h, seq |-> k]

\* modulus of the unsigned counter arithmetic (uint64, scaled down so
\* that the values stay inside TLC's integers)
U64 == 65536

\* rowStats{}; percentages are kept in hundredths, lastUpdate = 0 is the
\* zero time.Time; from and seq are history fields: the producer and the
\* position of the last sample applied to the row
ZeroStats ==
  [cpuPercent |-> 0, memPercent |-> 0, lastUpdate |-> 0,
   totalBytesReceived |-> 0, totalBytesSent |-> 0,
   bytesReceivedPerSecond |-> 0, bytesSentPerSecond |-> 0,
   from |-> "none", seq |-> 0]

newRow(c) == [container |-> c, stats |-> ZeroStats]

\* uint64(alpha*float64(cur) + (1-alpha)*float64(prev)) with alpha = 0.75
Smooth(cur, prev) == (3 * cur + prev) \div 4

\* uint64(d.Seconds()) for a duration of t half seconds: the fraction is
\* cut off; for a negative value the result depends on the build
\* (sat: the conversion saturates at 0, otherwise it wraps around)
SecondsToUint64(t, sat) ==
  IF t >= 0 THEN t \div TicksPerSecond
  ELSE IF sat \/ (-t) \div TicksPerSecond = 0 THEN 0
  ELSE U64 - ((-t) \div TicksPerSecond)

\* the body of "if row, exists := m.rows[stat.ID]; exists { ... }"
ApplyStatToRow(st, stat, sat) ==
  LET timeDelta == SecondsToUint64(stat.Time - st.lastUpdate, sat)
      rated == timeDelta > 0 /\ st.lastUpdate # 0
      curRx == ((stat.TotalNetworkReceived - st.totalBytesReceived) % U64)
                 \div Max(timeDelta, 1)
      curTx == ((stat.TotalNetworkTransmitted - st.totalBytesSent) % U64)
                 \div Max(timeDelta, 1)
  IN [cpuPercent |-> stat.CPUPercent,
      memPercent |-> stat.MemoryPercent,
      lastUpdate |-> stat.Time,
      totalBytesReceived |-> stat.TotalNetworkReceived,
      totalBytesSent |-> stat.TotalNetworkTransmitted,
      bytesReceivedPerSecond |->
        IF rated THEN Smooth(curRx, st.bytesReceivedPerSecond)
                 ELSE st.bytesReceivedPerSecond,
      bytesSentPerSecond |->
        IF rated THEN Smooth(curTx, st.bytesSentPerSecond)
                 ELSE st.bytesSentPerSecond,
      from |-> stat.src, seq |-> stat.seq]

\* a drain loop that would create a row for a sample of an unknown ID
ApplyStatCreate(rs, stat, sat) ==
  IF stat.ID \in DOMAIN rs
  THEN [rs EXCEPT ![stat.ID].stats =
                       ApplyStatToRow(rs[stat.ID].stats, stat, sat)]
  ELSE [id \in DOMAIN rs \cup {stat.ID} |->
          IF id = stat.ID
          THEN [container |-> Container(stat.src, stat.ID, "running", 0),
                stats |-> ApplyStatToRow(ZeroStats, stat, sat)]
          ELSE rs[id]]

\* one iteration of the drain loop of case tickMsg: the row is looked up
\* by stat.ID alone
ApplyStat(rs, stat, sat) ==
  IF stat.ID \in DOMAIN rs
  THEN [rs EXCEPT ![stat.ID].stats =
                       ApplyStatToRow(rs[stat.ID].stats, stat, sat)]
  ELSE rs

RECURSIVE ApplyStats(_, _, _)
ApplyStats(rs, stats, sat) ==
  IF stats = <<>> THEN rs
  ELSE ApplyStats(ApplyStat(rs, Head(stats), sat), Tail(stats), sat)

\* the loop of case containers: m.rows[c.ID] = newRow(c), in slice order
RECURSIVE StoreContainers(_, _)
StoreContainers(rs, msg) ==
  IF msg = <<>> THEN rs
  ELSE LET c == Head(msg)
       IN StoreContainers(
            [id \in DOMAIN rs \cup {c.ID} |->
               IF id = c.ID THEN newRow(c) ELSE rs[id]],
            Tail(msg))

\* ------------------------------------------------------ sort and filter
SortFields == {"name", "status"}

flipDesc(asc, descSort) == IF asc THEN ~descSort ELSE descSort

\* the comparator handed to sort.Slice
less(a, b, by, asc) ==
  IF by = "name"
  THEN flipDesc(asc, StrLess(a.Name \o a.ID, b.Name \o b.ID))
  ELSE flipDesc(asc, a.CreatedAt > b.CreatedAt)

\* a filter loop that keeps every row
FilterRowsKeepAll(rs, all) == {rs[id].container : id \in DOMAIN rs}

\* the rows kept by the filter loop of updateInternalRows
FilterRows(rs, all) ==
  {rs[id].container : id \in {k \in DOMAIN rs :
                                all \/ rs[k].container.State = "running"}}

\* what sort.Slice can leave in the slice: it is not stable and its input
\* is in Go's random map order, so every arrangement in which no row
\* strictly precedes an earlier one is possible
SortSlice(S, by, asc) ==
  {p \in Perms(S) :
     \A i \in 1..Len(p) : \A j \in 1..Len(p) :
        i < j => ~(less(p[j], p[i], by, asc) /\ ~less(p[i], p[j], by, asc))}

\* the row slices updateInternalRows can hand to table.SetRows
updateInternalRows(rs, all, by, asc) == SortSlice(FilterRows(rs, all), by, asc)

\* ---------------------------------------------------- table component
clamp(v, low, high) == Min(Max(v, low), high)

\* an UpdateViewport that renders from the first row on
ViewStartTop(cur, h) == 0

\* Model.UpdateViewport: the rendered window [start, end)
ViewStart(cur, h) == IF cur >= 0 THEN clamp(cur - h, 0, cur) ELSE 0

ViewEnd(cur, h, n) == clamp(cur + h, cur, n)

\* Model.MoveUp(n) / Model.MoveDown(n) as a signed move
MoveCursor(cur, n, len) == clamp(cur + n, 0, len - 1)

\* table columns: the title is kept as its text without arrow plus the
\* arrow suffix
Col(t, w) == [Title |-> t, arrow |-> "", Width |-> w]

InitCols ==
  <<Col("", 1), Col("NAME", 10), Col("ID", 13), Col("CPU", 10),
    Col("MEMORY", 10), Col("NETWORK IO", 10), Col("STATUS", 22)>>

flexibleColumns == {"NAME", "CPU", "MEMORY", "STATUS", "NETWORK IO"}

\* strings.ToLower(title) == string(m.sortBy)
TitleIs(t, by) ==
  \/ t = "NAME" /\ by = "name"
  \/ t = "STATUS" /\ by = "status"

\* slices.Contains(flexibleColumns, col.Title): the whole title, arrow
\* included, is compared
IsFlexible(c) == c.arrow = "" /\ c.Title \in flexibleColumns

updateColumnHeaders(cs, by, asc) ==
  [i \in 1..Len(cs) |->
     [cs[i] EXCEPT !.arrow = IF TitleIs(cs[i].Title, by)
                             THEN (IF asc THEN "down" ELSE "up")
                             ELSE ""]]

RECURSIVE SumFixed(_)
SumFixed(cs) ==
  IF cs = <<>> THEN 0
  ELSE (IF IsFlexible(Head(cs)) THEN 0 ELSE Head(cs).Width) + SumFixed(Tail(cs))

\* the column loop of case tea.WindowSizeMsg
ResizeCols(cs, w) ==
  LET total == w - SumFixed(cs)
  IN [i \in 1..Len(cs) |->
        IF IsFlexible(cs[i])
        THEN [cs[i] EXCEPT !.Width = GoDiv(total, Cardinality(flexibleColumns))]
        ELSE cs[i]]


\* rowCache{}: the empty strings
ZeroCache == [name |-> <<>>, id |-> <<>>, status |-> <<>>]

\* the NAME, ID and STATUS renderers: a cached string that is empty is
\* rendered from the container and kept; renderRow skips the columns whose
\* width is not positive
RenderCache(k, c, cs) ==
  LET Shown(xs, t) == \E i \in 1..Len(xs) : xs[i].Title = t /\ xs[i].Width > 0
  IN
  [name |-> IF k.name = <<>> /\ Shown(cs, "NAME") THEN c.Name ELSE k.name,
   id |-> IF k.id = <<>> /\ Shown(cs, "ID") THEN c.ID ELSE k.id,
   status |-> IF k.status = <<>> /\ Shown(cs, "STATUS") THEN <<c.State>>
              ELSE k.status]

\* the loop of UpdateViewport: renderRow(i) for start <= i < end
renderRows(ks, view, s, e, cs) ==
  [id \in DOMAIN ks |->
     IF \E i \in (s + 1)..e : view[i].ID = id
     THEN RenderCache(ks[id], (CHOOSE c \in Range(view) : c.ID = id), cs)
     ELSE ks[id]]

\* the caches of the rows after the loop of case containers: every stored
\* row is a new one
StoreCaches(ks, msg) ==
  [id \in DOMAIN ks \cup {msg[i].ID : i \in 1..Len(msg)} |->
     IF \E i \in 1..Len(msg) : msg[i].ID = id THEN ZeroCache ELSE ks[id]]

\* ---------------------------------------------------------------- state
VARIABLES
  \* the list page (list.Model)
  rows,        \* m.rows: container ID -> row
  cache,       \* container ID -> *m.rows[ID].cache
  showAll, sortBy, sortAsc, loading,
  winSize,     \* m.width, m.height
  \* its table (table.Model[row])
  tableRows,   \* m.table.rows, the view
  cursor,      \* m.table.cursor (0-based)
  start, end,  \* m.table.start, m.table.end
  vpHeight, vpWidth,   \* m.table.viewport.Height / Width
  cols,        \* m.table.cols
  \* the process
  phase,       \* "ping", "run", "quit", "hang" or "panic"
  crash,       \* what the process panicked with ("" while it lives)
  \* start-up and the context handed to the watchers
  pinged,      \* number of hosts NewMultiClient has pinged successfully
  unreachable, \* the hosts whose ping failed
  ctxDone,     \* the context is cancelled
  \* the engines
  engState,    \* state of every container of every engine
  nEvents,     \* events the engines have published
  \* the producers
  watcher,     \* per host: the goroutine of WatchContainers
  chClosed,    \* the containers channel is closed
  statw,       \* per host: the goroutine of WatchContainerStats
  stClosed,    \* the stats channel is closed
  strm,        \* per container: the streamStats goroutine
  \* the Bubble Tea runtime
  cwait,       \* commands blocked in waitForContainerUpdate
  swait,       \* commands blocked in waitForStatsUpdate
  pending,     \* containers messages on their way to Update
  lastVer,     \* history: per host, the last update Update has applied
  tickArmed,   \* a tick command is running
  showPend,    \* the bag of ShowContainerMsg messages on their way to
               \* Update, each as the ID of its container
  currentPage, \* App.currentPage
  \* the log page
  logs,        \* per StreamLogs call: its context and its goroutine
  logPage,     \* App.logPage: channel, content and viewport
  lwait,       \* per log channel: commands blocked in waitForLogs
  lmsgs        \* the bag of docker.LogEntry messages on their way to Update

listVars == <<rows, cache, showAll, sortBy, sortAsc, loading, winSize, tableRows,
              cursor, start, end, vpHeight, vpWidth, cols>>

procVars == <<phase, crash>>

envVars == <<pinged, unreachable, ctxDone, engState, nEvents>>

prodVars == <<watcher, chClosed, statw, stClosed, strm>>

logVars == <<logs, logPage, lwait, lmsgs>>

teaVars == <<cwait, swait, pending, lastVer, tickArmed, showPend, currentPage,
            logVars>>

progVars == <<envVars, prodVars, teaVars>>

vars == <<listVars, procVars, progVars>>

\* table.WithHeight(15): 15 minus the one header line
InitHeight == 15

HeaderHeight == 1

\* list.NewModel with table.New: the state of the list page before the
\* first message
InitList ==
  /\ rows = <<>>
  /\ cache = <<>>
  /\ showAll = FALSE
  /\ sortBy \in SortFields
  /\ sortAsc = FALSE
  /\ loading = TRUE
  /\ winSize = [Width |-> 0, Height |-> 0]
  /\ tableRows = <<>>
  /\ cursor = 0
  /\ vpHeight = InitHeight - HeaderHeight
  /\ vpWidth = 0
  /\ start = ViewStart(0, InitHeight - HeaderHeight)
  /\ end = ViewEnd(0, InitHeight - HeaderHeight, 0)
  /\ cols = updateColumnHeaders(InitCols, sortBy, FALSE)

\* Model.SetRows, Model.MoveUp, ... all end in UpdateViewport
UpdateViewport(ks) ==
  /\ start' = ViewStart(cursor', vpHeight')
  /\ end' = ViewEnd(cursor', vpHeight', Len(tableRows'))
  /\ cache' = renderRows(ks, tableRows', start', end', cols')

\* m = m.updateInternalRows(): filter, sort, table.SetRows
SetInternalRows(ks) ==
  /\ tableRows' \in updateInternalRows(rows', showAll', sortBy', sortAsc')
  /\ UpdateViewport(ks)

\* ----------------------------------------- list.Model.Update, by case
\* a case containers that leaves m.loading alone
ListContainersKeepLoading(msg) ==
  /\ rows' = StoreContainers(rows, msg)
  /\ UNCHANGED <<loading, showAll, sortBy, sortAsc, winSize, cursor, vpHeight,
                 vpWidth, cols>>
  /\ SetInternalRows(StoreCaches(cache, msg))

\* case containers
ListContainers(msg) ==
  /\ rows' = StoreContainers(rows, msg)
  /\ loading' = FALSE
  /\ UNCHANGED <<showAll, sortBy, sortAsc, winSize, cursor, vpHeight, vpWidth, cols>>
  /\ SetInternalRows(StoreCaches(cache, msg))

\* a case tickMsg that re-sorts the view after the drain
ListTickResort(samples, sat) ==
  /\ rows' = ApplyStats(rows, samples, sat)
  /\ UNCHANGED <<showAll, sortBy, sortAsc, loading, winSize, cursor, vpHeight,
                 vpWidth, cols>>
  /\ SetInternalRows(cache)

\* case tickMsg, given the samples the drain loop takes off m.stats
ListTick(samples, sat) ==
  /\ rows' = ApplyStats(rows, samples, sat)
  /\ UNCHANGED <<showAll, sortBy, sortAsc, loading, winSize, tableRows,
                 cursor, vpHeight, vpWidth, cols>>
  /\ UpdateViewport(cache)

\* case tea.WindowSizeMsg
ListWindowSize(ws) ==
  /\ winSize' = ws
  /\ vpWidth' = ws.Width
  /\ vpHeight' = (ws.Height - 1) - HeaderHeight
  /\ cols' = ResizeCols(cols, ws.Width)
  /\ UNCHANGED <<rows, showAll, sortBy, sortAsc, loading, cursor>>
  /\ SetInternalRows([id \in DOMAIN cache |-> ZeroCache])

\* keys LineUp / LineDown and the table's own keys (page, half page,
\* top, bottom): Model.MoveUp(n) / Model.MoveDown(n)
MoveKeys == {"up", "down", "pgup", "pgdown", "halfup", "halfdown",
             "home", "end"}

KeyDelta(k) ==
  CASE k = "up" -> -1
    [] k = "down" -> 1
    [] k = "pgup" -> -vpHeight
    [] k = "pgdown" -> vpHeight
    [] k = "halfup" -> -GoDiv(vpHeight, 2)
    [] k = "halfdown" -> GoDiv(vpHeight, 2)
    [] k = "home" -> -cursor
    [] k = "end" -> Len(tableRows)

ListKeyMove(k) ==
  /\ cursor' = MoveCursor(cursor, KeyDelta(k), Len(tableRows))
  /\ UNCHANGED <<rows, showAll, sortBy, sortAsc, loading, winSize, tableRows,
                 vpHeight, vpWidth, cols>>
  /\ UpdateViewport(cache)

\* key ShowAll
ListKeyShowAll ==
  /\ showAll' = ~showAll
  /\ UNCHANGED <<rows, sortBy, sortAsc, loading, winSize, cursor, vpHeight,
                 vpWidth, cols>>
  /\ SetInternalRows(cache)

\* keys Sort.Name / Sort.Status
ListKeySort(field) ==
  /\ IF field = sortBy
     THEN sortAsc' = ~sortAsc /\ sortBy' = sortBy
     ELSE sortBy' = field /\ sortAsc' = sortAsc
  /\ cols' = updateColumnHeaders(cols, sortBy', sortAsc')
  /\ UNCHANGED <<rows, showAll, loading, winSize, cursor, vpHeight, vpWidth>>
  /\ SetInternalRows(cache)

\* m.table.Rows()[m.table.Cursor()] of key Open is inside the slice
CursorOnRow == 0 <= cursor /\ cursor < Len(tableRows)


\* key Open: browser.OpenURL changes nothing here; indexing the rows with
\* a cursor outside the slice panics
ListKeyOpen ==
  IF CursorOnRow
  THEN UNCHANGED <<listVars, procVars>>
  ELSE /\ phase' = "panic"
       /\ crash' = "index out of range"
       /\ UNCHANGED listVars

\* ------------------------------------- SpecUI: the list page on its own
\* the messages the producers can send
SetToSeq(S) == CHOOSE p \in Perms(S) : TRUE

\* the initial snapshot of host h: every listed container, inspected
SnapshotMsgs(h, v) ==
  {SetToSeq({Container(h, id, st[id], v) : id \in EngineIDs[h]}) :
     st \in [EngineIDs[h] -> States]}

\* the update sent for one start / stop / die event
EventMsgs(h, v) ==
  {<<Container(h, id, st, v)>> : id \in EngineIDs[h], st \in States}

\* the samples of the frame script, one pass
ScriptSamples ==
  {ContainerStat(s[1], s[2], k) : s \in Streamers, k \in 1..Len(FrameCPU)}

\* what one drain loop can take off the stats channel: every streamer
\* blocks in its send with one sample, the loop receives from any of them
\* in any order
RECURSIVE DrainsOf(_)
DrainsOf(S) ==
  {<<>>} \cup
  UNION {{<<x>> \o d : d \in DrainsOf({y \in S : <<y.src, y.ID>> # <<x.src, x.ID>>})}
           : x \in S}

\* every sample of the drain is newer than the one its row holds: a
\* stream delivers its frames in order
RECURSIVE Fresh(_, _)
Fresh(rs, d) ==
  IF d = <<>> THEN TRUE
  ELSE /\ Head(d).ID \in DOMAIN rs => Head(d).seq > rs[Head(d).ID].stats.seq
       /\ Fresh(ApplyStat(rs, Head(d), FALSE), Tail(d))

WinSizes == {[Width |-> 100, Height |-> 3]}

\* a goroutine of WatchContainers before its first step; msg is the update
\* it holds, sent counts the updates it has handed over, evq is its event
\* subscription, bad the ID whose inspection failed in the snapshot and
\* skip the ID of the last event whose inspection failed (<<>>: none)
NewWatcher ==
  [pc |-> "list", msg |-> <<>>, sent |-> 0, evq |-> <<>>, bad |-> <<>>,
   skip |-> <<>>]

\* a goroutine of WatchContainerStats before its first step
NewStatsWatcher == [pc |-> "list", evq |-> <<>>]

\* ------------------------------------------------------- the log page
\* height of the log page's viewport: the terminal's height less the
\* status bar
LogHeight == 1

\* the viewport heights of the terminals the log page is tried with
LogHeights == {1, 2}

\* a StreamLogs call that has not been made yet
NoStream == [pc |-> "none", ctx |-> FALSE, sent |-> 0, cid |-> <<>>]

\* App.logPage before the first ShowContainerMsg
NoLogPage ==
  [ch |-> 0, container |-> <<>>, lines |-> <<>>, YOffset |-> 0, Height |-> 0]

\* log.NewModel for the container with ID c: a viewport of the given
\* height, no content, the channel that StreamLogs returned
NewLogPage(i, h, c) ==
  [ch |-> i, container |-> c, lines |-> <<>>, YOffset |-> 0, Height |-> h]

\* the text of the k-th line of log stream i; the zero docker.LogEntry has
\* the empty text <<>>
LogLine(i, k) == <<i, k>>

\* viewport: the lines of the content ("" is one line)
LineCount(lines) == Max(1, Len(lines))

\* viewport.maxYOffset
MaxYOffset(p) == Max(0, LineCount(p.lines) - p.Height)

\* viewport.AtBottom
AtBottom(p) == p.YOffset >= MaxYOffset(p)

\* viewport.GotoBottom
GotoBottom(p) == [p EXCEPT !.YOffset = MaxYOffset(p)]

\* viewport.SetContent: past the end of the new content the viewport goes
\* to the bottom
SetContent(p, lines) ==
  LET q == [p EXCEPT !.lines = lines]
  IN IF q.YOffset > LineCount(lines) - 1 THEN GotoBottom(q) ELSE q

\* m.content after "if m.content.Len() > 0 { WriteString("\n") }" and
\* WriteString(msg.Message)
WriteLine(lines, text) ==
  IF lines = <<>> THEN (IF text = <<>> THEN <<>> ELSE <<text>>)
  ELSE Append(lines, text)

\* a case docker.LogEntry that goes to the bottom on every line
LogEntryFollow(p, text) == GotoBottom(SetContent(p, WriteLine(p.lines, text)))

\* log Model.Update, case docker.LogEntry
LogEntry(p, text) ==
  LET wasAtBottom == AtBottom(p)
      q == SetContent(p, WriteLine(p.lines, text))
  IN IF wasAtBottom THEN GotoBottom(q) ELSE q

\* log Model.Update with a key: viewport.Update scrolls by one line
LogKeys == {"up", "down"}

LogKey(p, k) ==
  IF k = "up" THEN [p EXCEPT !.YOffset = Max(0, p.YOffset - 1)]
  ELSE IF AtBottom(p) THEN p
  ELSE [p EXCEPT !.YOffset = Min(p.YOffset + 1, MaxYOffset(p))]

\* no log page has been opened
LogIdle ==
  /\ logs = [i \in 1..MaxStreams |-> NoStream]
  /\ logPage = NoLogPage
  /\ lwait = [i \in 1..MaxStreams |-> 0]
  /\ lmsgs = EmptyBag

\* the rest of the program stands still in SpecUI
Idle ==
  /\ pinged = Len(HostOrder)
  /\ unreachable = {}
  /\ ctxDone = FALSE
  /\ engState = EngineState0
  /\ nEvents = 0
  /\ watcher = [h \in Hosts |-> NewWatcher]
  /\ chClosed = FALSE
  /\ statw = [h \in Hosts |-> NewStatsWatcher]
  /\ stClosed = FALSE
  /\ strm = [s \in Streamers |-> 0]
  /\ cwait = 0
  /\ swait = 0
  /\ pending = {}
  /\ lastVer = [h \in Hosts |-> 0]
  /\ tickArmed = FALSE
  /\ showPend = EmptyBag
  /\ currentPage = "List"
  /\ LogIdle

InitUI ==
  /\ InitList
  /\ phase = "run"
  /\ crash = ""
  /\ Idle

UIContainers ==
  /\ phase = "run"
  /\ \E h \in Hosts : \E msg \in SnapshotMsgs(h, 0) \cup EventMsgs(h, 0) :
       ListContainers(msg)
  /\ UNCHANGED <<procVars, progVars>>

UITick ==
  /\ phase = "run"
  /\ \E d \in DrainsOf(ScriptSamples) : \E sat \in BOOLEAN :
       Fresh(rows, d) /\ ListTick(d, sat)
  /\ UNCHANGED <<procVars, progVars>>

UIWindowSize ==
  /\ phase = "run"
  /\ \E ws \in WinSizes : ListWindowSize(ws)
  /\ UNCHANGED <<procVars, progVars>>

UIKeyMove ==
  /\ phase = "run"
  /\ \E k \in MoveKeys : ListKeyMove(k)
  /\ UNCHANGED <<procVars, progVars>>

UIKeyShowAll ==
  /\ phase = "run"
  /\ ListKeyShowAll
  /\ UNCHANGED <<procVars, progVars>>

UIKeySort ==
  /\ phase = "run"
  /\ \E f \in SortFields : ListKeySort(f)
  /\ UNCHANGED <<procVars, progVars>>

UIKeyOpen ==
  /\ phase = "run"
  /\ ListKeyOpen
  /\ UNCHANGED progVars

NextUI ==
  \/ UIContainers
  \/ UITick
  \/ UIWindowSize
  \/ UIKeyMove
  \/ UIKeyShowAll
  \/ UIKeySort
  \/ UIKeyOpen

SpecUI == InitUI /\ [][NextUI]_vars


\* ------------------------------------------------ Spec: the whole program
Panic(why) ==
  /\ phase' = "panic"
  /\ crash' = why

\* a Model.Init that batches two waitForContainerUpdate commands
ListInitTwoReaders == [cwait |-> 2, swait |-> 1, tick |-> TRUE]

\* Model.Init: tea.Batch(tick(), waitForContainerUpdate, waitForStatsUpdate)
ListInit == [cwait |-> 1, swait |-> 1, tick |-> TRUE]

\* docker.NewMultiClient: ping the hosts in order, panic on the first
\* failure; after the last host ui.NewModel starts the watchers and
\* Model.Init arms tick, waitForContainerUpdate and waitForStatsUpdate
NewMultiClient ==
  /\ phase = "ping"
  /\ \/ /\ pinged' = pinged + 1
        /\ IF pinged + 1 = Len(HostOrder)
           THEN /\ phase' = "run"
                /\ cwait' = ListInit.cwait
                /\ swait' = ListInit.swait
                /\ tickArmed' = ListInit.tick
           ELSE UNCHANGED <<phase, cwait, swait, tickArmed>>
        /\ UNCHANGED <<crash, unreachable>>
     \/ /\ unreachable' = unreachable \cup {HostOrder[pinged + 1]}
        /\ Panic("ping")
        /\ UNCHANGED <<pinged, cwait, swait, tickArmed>>
  /\ UNCHANGED <<listVars, ctxDone, engState, nEvents, prodVars, pending,
                 lastVer, showPend, currentPage,
                 logVars>>

\* the caller cancels the context handed to the watchers
Cancel ==
  /\ phase = "run"
  /\ ~ctxDone
  /\ ctxDone' = TRUE
  /\ UNCHANGED <<listVars, procVars, pinged, unreachable, engState, nEvents,
                 prodVars, teaVars>>

Subscribed(w) == w.pc \in {"events", "evt"}

EventAction(st) == IF st = "running" THEN "start" ELSE "die"

Flip(st) == IF st = "running" THEN "exited" ELSE "running"

\* an engine starts or stops a container and publishes the event to the
\* subscriptions that exist
EngineEvent ==
  /\ phase = "run"
  /\ nEvents < MaxEvents
  /\ \E s \in Eventful :
       LET h == s[1]
           id == s[2]
           st == Flip(engState[s])
       IN /\ engState' = [engState EXCEPT ![s] = st]
          /\ watcher' = IF Subscribed(watcher[h])
                        THEN [watcher EXCEPT ![h].evq = Append(@, id)]
                        ELSE watcher
          /\ statw' = IF statw[h].pc = "events"
                      THEN [statw EXCEPT ![h].evq =
                                           Append(@, <<id, EventAction(st)>>)]
                      ELSE statw
  /\ nEvents' = nEvents + 1
  /\ UNCHANGED <<listVars, procVars, pinged, unreachable, ctxDone, chClosed,
                 stClosed, strm, teaVars>>

\* the snapshot of host h: every listed container as inspected now
Snapshot(h) ==
  SetToSeq({Container(h, id, engState[<<h, id>>], 1) :
              id \in {i \in EngineIDs[h] : engState[<<h, i>>] # "removed"}})

\* an engine removes a stopped container and publishes a destroy event;
\* the subscriptions filter on start, stop and die, so no watcher receives
\* it
EngineDestroy ==
  /\ phase = "run"
  /\ \E s \in Eventful :
       /\ engState[s] = "exited"
       /\ engState' = [engState EXCEPT ![s] = "removed"]
  /\ UNCHANGED <<listVars, procVars, pinged, unreachable, ctxDone, nEvents,
                 prodVars, teaVars>>

\* Client.WatchContainers: ContainerList and the inspect loop
WatcherList(h) ==
  /\ phase = "run"
  /\ watcher[h].pc = "list"
  /\ \/ /\ Panic("ContainerList")
        /\ UNCHANGED watcher
     \/ \E id \in EngineIDs[h] :
          /\ watcher' = [watcher EXCEPT ![h].bad = id]
          /\ Panic("inspect")
     \/ /\ watcher' = [watcher EXCEPT ![h].pc = "snap", ![h].msg = Snapshot(h)]
        /\ UNCHANGED procVars
  /\ UNCHANGED <<listVars, envVars, chClosed, statw, stClosed, strm, teaVars>>

Sending(w) == w.pc \in {"snap", "evt"}

\* "case channel <- containers": a waitForContainerUpdate command takes the
\* update; after the snapshot the watcher subscribes to the events
WatcherSend(h) ==
  /\ phase = "run"
  /\ Sending(watcher[h])
  /\ ~chClosed
  /\ cwait > 0
  /\ cwait' = cwait - 1
  /\ pending' = pending \cup {watcher[h].msg}
  /\ watcher' = [watcher EXCEPT ![h].pc = "events", ![h].msg = <<>>,
                                ![h].sent = @ + 1]
  /\ UNCHANGED <<listVars, procVars, envVars, chClosed, statw, stClosed, strm,
                 swait, lastVer, tickArmed, showPend, currentPage,
                 logVars>>

\* the same send when another host's goroutine has closed the channel
WatcherSendClosed(h) ==
  /\ phase = "run"
  /\ Sending(watcher[h])
  /\ chClosed
  /\ Panic("send on closed channel")
  /\ UNCHANGED <<listVars, progVars>>

\* "case <-ctx.Done(): return", which runs the deferred close(channel)
WatcherReturn(h) ==
  /\ phase = "run"
  /\ ctxDone
  /\ watcher[h].pc \in {"snap", "events", "evt"}
  /\ watcher' = [watcher EXCEPT ![h].pc = "done"]
  /\ IF chClosed
     THEN Panic("close of closed channel") /\ UNCHANGED chClosed
     ELSE chClosed' = TRUE /\ UNCHANGED procVars
  /\ UNCHANGED <<listVars, envVars, statw, stClosed, strm, teaVars>>

\* "case err := <-err: panic(err)"
WatcherEventsError(h) ==
  /\ phase = "run"
  /\ watcher[h].pc = "events"
  /\ Panic("events")
  /\ UNCHANGED <<listVars, progVars>>

\* an event loop that panics when the inspection fails, as the snapshot
\* loop does
WatcherEventPanics(h) ==
  /\ phase = "run"
  /\ watcher[h].pc = "events"
  /\ watcher[h].evq # <<>>
  /\ LET id == Head(watcher[h].evq)
     IN \/ /\ watcher' = [watcher EXCEPT ![h].evq = Tail(@), ![h].skip = id]
           /\ Panic("inspect")
        \/ /\ watcher' = [watcher EXCEPT
                              ![h].evq = Tail(@),
                              ![h].pc = "evt",
                              ![h].msg = <<Container(h, id, engState[<<h, id>>],
                                                     watcher[h].sent + 1)>>]
           /\ UNCHANGED procVars
  /\ UNCHANGED <<listVars, envVars, chClosed, statw, stClosed, strm, teaVars>>

\* "case message := <-dockerMessages": inspect the container; on failure
\* continue, else go on to send the update
WatcherEvent(h) ==
  /\ phase = "run"
  /\ watcher[h].pc = "events"
  /\ watcher[h].evq # <<>>
  /\ LET id == Head(watcher[h].evq)
     IN \/ watcher' = [watcher EXCEPT ![h].evq = Tail(@), ![h].skip = id]
        \/ watcher' = [watcher EXCEPT
                         ![h].evq = Tail(@),
                         ![h].pc = "evt",
                         ![h].msg = <<Container(h, id, engState[<<h, id>>],
                                                watcher[h].sent + 1)>>]
  /\ UNCHANGED <<listVars, procVars, envVars, chClosed, statw, stClosed, strm,
                 teaVars>>

\* a streamStats goroutine: 0 not started, k in 1..Len(FrameCPU) blocked in
\* the send of its k-th sample, Len(FrameCPU) + 1 returned at the end of
\* the stream, -1 returned on ctx.Done
Live(k) == k \in 1..Len(FrameCPU)

\* Client.WatchContainerStats: ContainerList (running containers only) and
\* one streamStats per container
StatsList(h) ==
  /\ phase = "run"
  /\ statw[h].pc = "list"
  /\ \/ /\ Panic("ContainerList")
        /\ UNCHANGED <<statw, strm>>
     \/ /\ statw' = [statw EXCEPT ![h].pc = "events"]
        /\ strm' = [s \in Streamers |->
                      IF s[1] = h /\ engState[s] = "running" THEN 1
                      ELSE strm[s]]
        /\ UNCHANGED procVars
  /\ UNCHANGED <<listVars, envVars, watcher, chClosed, stClosed, teaVars>>

\* the event loop of WatchContainerStats: a start event spawns a streamer
StatsEvent(h) ==
  /\ phase = "run"
  /\ statw[h].pc = "events"
  /\ statw[h].evq # <<>>
  /\ LET e == Head(statw[h].evq)
     IN strm' = IF e[2] = "start" /\ ~Live(strm[<<h, e[1]>>])
                THEN [strm EXCEPT ![<<h, e[1]>>] = 1]
                ELSE strm
  /\ statw' = [statw EXCEPT ![h].evq = Tail(@)]
  /\ UNCHANGED <<listVars, procVars, envVars, watcher, chClosed, stClosed,
                 teaVars>>

StatsEventsError(h) ==
  /\ phase = "run"
  /\ statw[h].pc = "events"
  /\ Panic("events")
  /\ UNCHANGED <<listVars, progVars>>

\* "case <-ctx.Done(): return", which runs the deferred close(stats)
StatsReturn(h) ==
  /\ phase = "run"
  /\ ctxDone
  /\ statw[h].pc = "events"
  /\ statw' = [statw EXCEPT ![h].pc = "done"]
  /\ IF stClosed
     THEN Panic("close of closed channel") /\ UNCHANGED stClosed
     ELSE stClosed' = TRUE /\ UNCHANGED procVars
  /\ UNCHANGED <<listVars, envVars, watcher, chClosed, strm, teaVars>>

\* streamStats: "case <-ctx.Done(): return nil"
StreamReturn(s) ==
  /\ phase = "run"
  /\ ctxDone
  /\ Live(strm[s])
  /\ strm' = [strm EXCEPT ![s] = -1]
  /\ UNCHANGED <<listVars, procVars, envVars, watcher, chClosed, statw,
                 stClosed, teaVars>>

\* streamStats: "case stats <- ContainerStat{...}" on the closed channel
StreamSendClosed(s) ==
  /\ phase = "run"
  /\ stClosed
  /\ Live(strm[s])
  /\ Panic("send on closed channel")
  /\ UNCHANGED <<listVars, progVars>>

\* the sample a live streamer holds
Held(s) == ContainerStat(s[1], s[2], strm[s])

\* the streamers after the samples of d have been taken from them
RECURSIVE Taken(_, _)
Taken(sm, d) ==
  IF d = <<>> THEN sm
  ELSE Taken([sm EXCEPT ![<<Head(d).src, Head(d).ID>>] = @ + 1], Tail(d))

\* the command of waitForStatsUpdate receives one sample (the zero value
\* once the channel is closed) and returns it as a message; Update has no
\* case for docker.ContainerStat, on either page
StatsWaiterRecv ==
  /\ phase = "run"
  /\ swait > 0
  /\ swait' = swait - 1
  /\ IF stClosed THEN UNCHANGED strm
     ELSE \E s \in Streamers : Live(strm[s]) /\ strm' = Taken(strm, <<Held(s)>>)
  /\ UNCHANGED <<listVars, procVars, envVars, watcher, chClosed, statw,
                 stClosed, cwait, pending, lastVer, tickArmed, showPend,
                 currentPage,
                 logVars>>

\* the command of waitForContainerUpdate reads the closed channel: nil
WaiterRecvClosed ==
  /\ phase = "run"
  /\ chClosed
  /\ cwait > 0
  /\ cwait' = cwait - 1
  /\ pending' = pending \cup {<<>>}
  /\ UNCHANGED <<listVars, procVars, envVars, prodVars, swait, lastVer,
                 tickArmed, showPend, currentPage,
                 logVars>>

\* a case containers that returns two waitForContainerUpdate commands
RearmTwice(n) == n + 2

\* the waitForContainerUpdate commands armed after case containers has
\* returned its one
Rearm(n) == n + 1

\* App.Update with a containers message: the current page gets it; the
\* list page stores it and re-arms waitForContainerUpdate, the log page
\* passes it to its viewport
TeaContainers ==
  /\ phase = "run"
  /\ \E m \in pending :
       /\ pending' = pending \ {m}
       /\ IF currentPage = "List"
          THEN /\ ListContainers(m)
               /\ cwait' = Min(Rearm(cwait), MaxWaiters)
               /\ lastVer' = IF m = <<>> THEN lastVer
                             ELSE [lastVer EXCEPT ![m[1].Host] = m[1].ver]
          ELSE UNCHANGED <<listVars, cwait, lastVer>>
  /\ UNCHANGED <<procVars, envVars, prodVars, swait, tickArmed, showPend,
                 currentPage,
                 logVars>>

\* App.Update with a tickMsg: the list page drains m.stats and returns
\* tick(); the drain loop never ends once the channel is closed; the log
\* page returns no tick()
TeaTick ==
  /\ phase = "run"
  /\ tickArmed
  /\ IF currentPage = "List"
     THEN IF stClosed
          THEN /\ phase' = "hang"
               /\ UNCHANGED <<listVars, crash, strm, tickArmed>>
          ELSE /\ \E d \in DrainsOf({Held(s) : s \in {x \in Streamers : Live(strm[x])}}) :
                    \E sat \in BOOLEAN :
                       /\ ListTick(d, sat)
                       /\ strm' = Taken(strm, d)
               /\ UNCHANGED <<procVars, tickArmed>>
     ELSE /\ tickArmed' = FALSE
          /\ UNCHANGED <<listVars, procVars, strm>>
  /\ UNCHANGED <<envVars, watcher, chClosed, statw, stClosed, cwait, swait,
                 pending, lastVer, showPend, currentPage,
                 logVars>>

\* key ViewLogs on the list page: a command that returns ShowContainerMsg
KeyViewLogs ==
  /\ phase = "run"
  /\ currentPage = "List"
  /\ CursorOnRow
  /\ BagCardinality(showPend) < MaxShow
  /\ Cardinality({i \in 1..MaxStreams : logs[i].pc # "none"})
       + BagCardinality(showPend) < MaxStreams
  /\ showPend' = showPend (+) SetToBag({tableRows[cursor + 1].ID})
  /\ UNCHANGED <<listVars, procVars, envVars, prodVars, cwait, swait, pending,
                 lastVer, tickArmed, currentPage,
                 logVars>>

\* App.Update, case messages.ShowContainerMsg: log.NewModel calls
\* StreamLogs with a context of its own and replaces a.logPage; Init arms
\* waitForLogs on the new channel
TeaShow ==
  /\ phase = "run"
  /\ currentPage' = "Log"
  /\ \E c \in BagToSet(showPend) : \E i \in 1..MaxStreams :
       /\ showPend' = showPend (-) SetToBag({c})
       /\ logs[i].pc = "none"
       /\ \A j \in 1..(i - 1) : logs[j].pc # "none"
       /\ logs' = [logs EXCEPT ![i] = [pc |-> "live", ctx |-> FALSE,
                                       sent |-> 0, cid |-> c]]
       /\ logPage' = NewLogPage(i, LogHeight, c)
       /\ lwait' = [lwait EXCEPT ![i] = 1]
  /\ UNCHANGED <<listVars, procVars, envVars, prodVars, cwait, swait, pending,
                 lastVer, tickArmed, lmsgs>>

\* a back key that the application handles on every page
KeyBackAnyPage ==
  /\ phase = "run"
  /\ currentPage' = IF currentPage = "Log" THEN "List" ELSE "Log"
  /\ logs' = IF currentPage = "Log" THEN [logs EXCEPT ![logPage.ch].ctx = TRUE]
             ELSE logs
  /\ UNCHANGED <<listVars, procVars, envVars, prodVars, cwait, swait, pending,
                 lastVer, tickArmed, showPend, logPage, lwait, lmsgs>>

\* App.Update, backKey: on the log page Destroy cancels the context of the
\* page's stream and the list page is shown; on the list page the key is
\* delegated to the list page, where no binding matches it
KeyBack ==
  /\ phase = "run"
  /\ IF currentPage = "Log"
       THEN /\ currentPage' = "List"
            /\ logs' = [logs EXCEPT ![logPage.ch].ctx = TRUE]
            /\ UNCHANGED <<listVars, procVars, envVars, prodVars, cwait, swait,
                           pending, lastVer, tickArmed, showPend, logPage,
                           lwait, lmsgs>>
       ELSE UNCHANGED vars

\* the goroutine of StreamLogs: "case logs <- entry": a waitForLogs command
\* takes the next line
LogSend(i) ==
  /\ phase = "run"
  /\ logs[i].pc = "live"
  /\ logs[i].sent < MaxLines
  /\ lwait[i] > 0
  /\ logs' = [logs EXCEPT ![i].sent = @ + 1]
  /\ lwait' = [lwait EXCEPT ![i] = @ - 1]
  /\ lmsgs' = lmsgs (+) SetToBag({[ch |-> i, ContainerID |-> logs[i].cid,
                                   Message |-> LogLine(i, logs[i].sent + 1)]})
  /\ UNCHANGED <<listVars, procVars, envVars, prodVars, cwait, swait, pending,
                 lastVer, tickArmed, showPend, currentPage, logPage>>

\* the goroutine of StreamLogs returns on ctx.Done: "defer close(logs)"
LogReturn(i) ==
  /\ phase = "run"
  /\ logs[i].pc = "live"
  /\ logs[i].ctx
  /\ logs' = [logs EXCEPT ![i].pc = "closed"]
  /\ UNCHANGED <<listVars, procVars, envVars, prodVars, cwait, swait, pending,
                 lastVer, tickArmed, showPend, currentPage, logPage, lwait,
                 lmsgs>>

\* the stream ends (ContainerLogs fails or scanner.Scan returns false):
\* "defer close(logs)"
LogEnd(i) ==
  /\ phase = "run"
  /\ logs[i].pc = "live"
  /\ ~logs[i].ctx
  /\ logs' = [logs EXCEPT ![i].pc = "closed"]
  /\ UNCHANGED <<listVars, procVars, envVars, prodVars, cwait, swait, pending,
                 lastVer, tickArmed, showPend, currentPage, logPage, lwait,
                 lmsgs>>

\* a waitForLogs command reads the closed channel: the zero docker.LogEntry
LogWaiterRecvClosed(i) ==
  /\ phase = "run"
  /\ logs[i].pc = "closed"
  /\ lwait[i] > 0
  /\ lwait' = [lwait EXCEPT ![i] = @ - 1]
  /\ lmsgs' = lmsgs (+) SetToBag({[ch |-> i, ContainerID |-> <<>>,
                                   Message |-> <<>>]})
  /\ UNCHANGED <<listVars, procVars, envVars, prodVars, cwait, swait, pending,
                 lastVer, tickArmed, showPend, currentPage, logs, logPage>>

\* App.Update with a docker.LogEntry: the current page gets it; the log
\* page appends it and re-arms waitForLogs on its channel, the list page
\* has no case for it
TeaLogEntry ==
  /\ phase = "run"
  /\ \E msg \in BagToSet(lmsgs) :
       /\ lmsgs' = lmsgs (-) SetToBag({msg})
       /\ IF currentPage = "Log"
          THEN /\ Len(logPage.lines) < MaxLines
               /\ logPage' = LogEntry(logPage, msg.Message)
               /\ lwait' = [lwait EXCEPT ![logPage.ch] = @ + 1]
          ELSE UNCHANGED <<logPage, lwait>>
  /\ UNCHANGED <<listVars, procVars, envVars, prodVars, cwait, swait, pending,
                 lastVer, tickArmed, showPend, currentPage, logs>>

\* App.Update with a key on the log page: the viewport scrolls
TeaLogKey ==
  /\ phase = "run"
  /\ currentPage = "Log"
  /\ \E k \in LogKeys : logPage' = LogKey(logPage, k)
  /\ UNCHANGED <<listVars, procVars, envVars, prodVars, cwait, swait, pending,
                 lastVer, tickArmed, showPend, currentPage, logs, lwait, lmsgs>>

\* App.Update, quitKey
KeyQuit ==
  /\ phase = "run"
  /\ phase' = "quit"
  /\ UNCHANGED <<listVars, crash, progVars>>

Init ==
  /\ InitList
  /\ sortBy = "name"
  /\ phase = "ping"
  /\ crash = ""
  /\ pinged = 0
  /\ unreachable = {}
  /\ ctxDone = FALSE
  /\ engState = EngineState0
  /\ nEvents = 0
  /\ watcher = [h \in Hosts |-> NewWatcher]
  /\ chClosed = FALSE
  /\ statw = [h \in Hosts |-> NewStatsWatcher]
  /\ stClosed = FALSE
  /\ strm = [s \in Streamers |-> 0]
  /\ cwait = 0
  /\ swait = 0
  /\ pending = {}
  /\ lastVer = [h \in Hosts |-> 0]
  /\ tickArmed = FALSE
  /\ showPend = EmptyBag
  /\ currentPage = "List"
  /\ LogIdle

\* Spec: the program as main runs it: the context is context.Background()
\* and is never cancelled; the list page stays in front
Next ==
  \/ NewMultiClient
  \/ EngineEvent
  \/ \E h \in Hosts :
       \/ WatcherList(h)
       \/ WatcherSend(h)
       \/ WatcherEventsError(h)
       \/ WatcherEvent(h)
       \/ StatsList(h)
       \/ StatsEvent(h)
       \/ StatsEventsError(h)
  \/ StatsWaiterRecv
  \/ TeaContainers
  \/ TeaTick
  \/ KeyQuit

Spec == Init /\ [][Next]_vars

\* SpecApp: the user opens and leaves the log page while the container
\* watchers run (the stats goroutines have not been scheduled yet)
NextApp ==
  \/ NewMultiClient
  \/ EngineEvent
  \/ \E h \in Hosts :
       \/ WatcherList(h)
       \/ WatcherSend(h)
       \/ WatcherEventsError(h)
       \/ WatcherEvent(h)
  \/ TeaContainers
  \/ TeaTick
  \/ KeyViewLogs
  \/ TeaShow
  \/ KeyBack
  \/ KeyQuit

SpecApp == Init /\ [][NextApp]_vars

\* the goroutine scheduler and the Bubble Tea runtime let every watcher
\* step and every message delivery happen eventually
Fairness ==
  /\ WF_vars(NewMultiClient)
  /\ \A h \in Hosts :
       /\ WF_vars(WatcherList(h))
       /\ WF_vars(WatcherSend(h))
       /\ WF_vars(WatcherEvent(h))
  /\ WF_vars(TeaContainers)
  /\ WF_vars(TeaTick)
  /\ WF_vars(TeaShow)

FairSpec == SpecApp /\ Fairness

\* SpecCancel: the caller of WatchContainers and WatchContainerStats
\* cancels the context; the engines publish no events
NextCancel ==
  \/ NewMultiClient
  \/ Cancel
  \/ \E h \in Hosts :
       \/ WatcherList(h)
       \/ WatcherSend(h)
       \/ WatcherSendClosed(h)
       \/ WatcherReturn(h)
       \/ WatcherEventsError(h)
       \/ StatsList(h)
       \/ StatsEventsError(h)
       \/ StatsReturn(h)
  \/ \E s \in Streamers : StreamReturn(s) \/ StreamSendClosed(s)
  \/ StatsWaiterRecv
  \/ WaiterRecvClosed
  \/ TeaContainers
  \/ TeaTick
  \/ KeyQuit

SpecCancel == Init /\ [][NextCancel]_vars

\* SpecView: the view computation on its own: the list page holds any
\* store that event updates can build, and event updates are applied
Inspected ==
  {Container(h, id, st, 0) : h \in Hosts, id \in IDs, st \in States}

\* what inspectContainer can return for an event
EventUpdates == {c \in Inspected : c.ID \in KnownIDs[c.Host]}

\* the stores that hold fresh rows for some of the container IDs
Stores ==
  UNION {{[id \in D |-> newRow(f[id])] :
            f \in {g \in [D -> EventUpdates] : \A id \in D : g[id].ID = id}}
           : D \in SUBSET IDs}

InitView ==
  /\ rows \in Stores
  /\ showAll \in BOOLEAN
  /\ sortBy \in SortFields
  /\ sortAsc \in BOOLEAN
  /\ loading = FALSE
  /\ winSize = [Width |-> 0, Height |-> 0]
  /\ tableRows \in updateInternalRows(rows, showAll, sortBy, sortAsc)
  /\ cursor \in 0..Max(0, Len(tableRows) - 1)
  /\ vpHeight = InitHeight - HeaderHeight
  /\ vpWidth = 0
  /\ start = ViewStart(cursor, vpHeight)
  /\ end = ViewEnd(cursor, vpHeight, Len(tableRows))
  /\ cols = updateColumnHeaders(InitCols, sortBy, sortAsc)
  /\ cache = renderRows([id \in DOMAIN rows |-> ZeroCache], tableRows, start,
                        end, cols)
  /\ phase = "run"
  /\ crash = ""
  /\ Idle

\* case containers with the update of one event
ViewContainers ==
  /\ \E c \in EventUpdates : ListContainers(<<c>>)
  /\ UNCHANGED <<procVars, progVars>>

NextView == ViewContainers

SpecView == InitView /\ [][NextView]_vars

\* SpecTable: the table component under the list page: the store holds up
\* to three rows, event updates are applied, the window is resized and the
\* user moves the cursor and toggles show-all
NextTable ==
  \/ ViewContainers
  \/ UIWindowSize
  \/ UIKeyMove
  \/ UIKeyShowAll

SpecTable == InitView /\ [][NextTable]_vars


\* SpecStat: the stats arithmetic on its own: the store holds one row whose
\* stats an earlier sample left behind (or a fresh row), and one later
\* sample of its stream is applied by a tick
StatRows ==
  {ZeroStats} \cup
  {[cpuPercent |-> 50, memPercent |-> 20, lastUpdate |-> 2,
    totalBytesReceived |-> 100, totalBytesSent |-> 100,
    bytesReceivedPerSecond |-> rx, bytesSentPerSecond |-> tx,
    from |-> "h1", seq |-> 1] : rx \in {0, 100}, tx \in {0, 100}}

\* the samples streamStats can send next: any percentages, a later read
\* time, any values of the cumulative counters
NextSamples ==
  {[ID |-> <<1>>, CPUPercent |-> c, MemoryPercent |-> 40, Time |-> t,
    TotalNetworkReceived |-> rx, TotalNetworkTransmitted |-> tx,
    src |-> "h1", seq |-> 2] :
     c \in {0, 250}, t \in {3, 4, 6}, rx \in {60, 100, 200},
     tx \in {60, 100, 200}}

InitStat ==
  /\ \E st \in StatRows :
       rows = [id \in {<<1>>} |->
                 [container |-> Container("h1", <<1>>, "running", 0),
                  stats |-> st]]
  /\ showAll = FALSE
  /\ sortBy \in SortFields
  /\ sortAsc = FALSE
  /\ loading = FALSE
  /\ winSize = [Width |-> 0, Height |-> 0]
  /\ tableRows \in updateInternalRows(rows, showAll, sortBy, sortAsc)
  /\ cursor = 0
  /\ vpHeight = InitHeight - HeaderHeight
  /\ vpWidth = 0
  /\ start = ViewStart(cursor, vpHeight)
  /\ end = ViewEnd(cursor, vpHeight, Len(tableRows))
  /\ cols = updateColumnHeaders(InitCols, sortBy, sortAsc)
  /\ cache = renderRows([id \in DOMAIN rows |-> ZeroCache], tableRows, start,
                        end, cols)
  /\ phase = "run"
  /\ crash = ""
  /\ Idle

\* case tickMsg with one sample on the channel
StatTick ==
  /\ rows[<<1>>].stats.seq < 2
  /\ \E stat \in NextSamples : \E sat \in BOOLEAN : ListTick(<<stat>>, sat)
  /\ UNCHANGED <<procVars, progVars>>

NextStat == StatTick

SpecStat == InitStat /\ [][NextStat]_vars


\* SpecDestroy: the container watchers and the list page while an engine
\* removes a container; the user toggles show-all
NextDestroy ==
  \/ NewMultiClient
  \/ EngineDestroy
  \/ \E h \in Hosts :
       \/ WatcherList(h)
       \/ WatcherSend(h)
  \/ TeaContainers
  \/ UIKeyShowAll

SpecDestroy == Init /\ [][NextDestroy]_vars


\* SpecLogView: the log page on its own: it has just been opened and gets
\* log entries and keys directly
InitLogView ==
  /\ InitList
  /\ phase = "run"
  /\ crash = ""
  /\ pinged = Len(HostOrder)
  /\ unreachable = {}
  /\ ctxDone = FALSE
  /\ engState = EngineState0
  /\ nEvents = 0
  /\ watcher = [h \in Hosts |-> NewWatcher]
  /\ chClosed = FALSE
  /\ statw = [h \in Hosts |-> NewStatsWatcher]
  /\ stClosed = FALSE
  /\ strm = [s \in Streamers |-> 0]
  /\ cwait = 0
  /\ swait = 0
  /\ pending = {}
  /\ lastVer = [h \in Hosts |-> 0]
  /\ tickArmed = FALSE
  /\ showPend = EmptyBag
  /\ currentPage = "Log"
  /\ logs = [i \in 1..MaxStreams |->
               IF i = 1 THEN [pc |-> "live", ctx |-> FALSE, sent |-> 0,
                              cid |-> <<1>>]
               ELSE NoStream]
  /\ \E h \in LogHeights : logPage = NewLogPage(1, h, <<1>>)
  /\ lwait = [i \in 1..MaxStreams |-> 0]
  /\ lmsgs = EmptyBag

\* the texts of the entries the page is given: lines of its stream and the
\* empty text
LogTexts == {LogLine(1, k) : k \in 1..MaxLines} \cup {<<>>}

\* log Model.Update, case docker.LogEntry
LogViewEntry ==
  /\ Len(logPage.lines) <= MaxLines
  /\ \E text \in LogTexts : logPage' = LogEntry(logPage, text)
  /\ UNCHANGED <<listVars, procVars, envVars, prodVars, cwait, swait, pending,
                 lastVer, tickArmed, showPend, currentPage, logs, lwait, lmsgs>>

NextLogView == LogViewEntry \/ TeaLogKey

SpecLogView == InitLogView /\ [][NextLogView]_vars

\* SpecLog: the list page shows the containers of h1; the user opens and
\* leaves the log page while the log streams run
InitLog ==
  /\ rows = [id \in EngineIDs["h1"] |->
               newRow(Container("h1", id, EngineState0[<<"h1", id>>], 1))]
  /\ showAll = FALSE
  /\ sortBy = "name"
  /\ sortAsc = FALSE
  /\ loading = FALSE
  /\ winSize = [Width |-> 0, Height |-> 0]
  /\ tableRows \in updateInternalRows(rows, showAll, sortBy, sortAsc)
  /\ cursor = 0
  /\ vpHeight = InitHeight - HeaderHeight
  /\ vpWidth = 0
  /\ start = ViewStart(cursor, vpHeight)
  /\ end = ViewEnd(cursor, vpHeight, Len(tableRows))
  /\ cols = updateColumnHeaders(InitCols, sortBy, sortAsc)
  /\ cache = renderRows([id \in DOMAIN rows |-> ZeroCache], tableRows, start,
                        end, cols)
  /\ phase = "run"
  /\ crash = ""
  /\ Idle

NextLog ==
  \/ KeyViewLogs
  \/ TeaShow
  \/ KeyBack
  \/ \E i \in 1..MaxStreams :
       \/ LogSend(i)
       \/ LogReturn(i)
       \/ LogEnd(i)
       \/ LogWaiterRecvClosed(i)
  \/ TeaLogEntry

SpecLog == InitLog /\ [][NextLog]_vars

\* SpecLogSwitch: the list page shows both containers of h1 (show-all is
\* on); the user moves the cursor, opens and leaves log pages while the
\* log streams send
InitLogSwitch ==
  /\ rows = [id \in EngineIDs["h1"] |->
               newRow(Container("h1", id, EngineState0[<<"h1", id>>], 1))]
  /\ showAll = TRUE
  /\ sortBy = "name"
  /\ sortAsc = FALSE
  /\ loading = FALSE
  /\ winSize = [Width |-> 0, Height |-> 0]
  /\ tableRows \in updateInternalRows(rows, showAll, sortBy, sortAsc)
  /\ cursor = 0
  /\ vpHeight = InitHeight - HeaderHeight
  /\ vpWidth = 0
  /\ start = ViewStart(cursor, vpHeight)
  /\ end = ViewEnd(cursor, vpHeight, Len(tableRows))
  /\ cols = updateColumnHeaders(InitCols, sortBy, sortAsc)
  /\ cache = renderRows([id \in DOMAIN rows |-> ZeroCache], tableRows, start,
                        end, cols)
  /\ phase = "run"
  /\ crash = ""
  /\ Idle

\* App.Update with the LineUp or LineDown key while the list page is shown
TeaListKeyMove ==
  /\ phase = "run"
  /\ currentPage = "List"
  /\ \E k \in {"up", "down"} : ListKeyMove(k)
  /\ UNCHANGED <<procVars, progVars>>

NextLogSwitch ==
  \/ TeaListKeyMove
  \/ KeyViewLogs
  \/ TeaShow
  \/ KeyBack
  \/ \E i \in 1..MaxStreams : LogSend(i)
  \/ TeaLogEntry

SpecLogSwitch == InitLogSwitch /\ [][NextLogSwitch]_vars


\* ================================================================ claims
\* the containers of the store, as (host, ID) pairs
StoreKeys == {<<rows[id].container.Host, id>> : id \in DOMAIN rows}

\* C2: the same container ID on two hosts denotes two containers: a
\* container of one host stays in the store when a message of another host
\* is applied (nothing in the program removes a container), and the last
\* sample applied to a row came from the row's own host.
C2_SameIdOnTwoHosts ==
  [][/\ \A k \in StoreKeys : k \in StoreKeys'
     /\ \A id \in DOMAIN rows' :
          rows'[id].stats.from \in {"none", rows'[id].container.Host}]_vars

\* C3: the view rows are exactly the containers of the store that pass the
\* filter (all of them if show-all, else the running ones), each once.
C3_ViewIsFilteredStore ==
  /\ Range(tableRows) =
       {rows[id].container : id \in {k \in DOMAIN rows :
            showAll \/ rows[k].container.State = "running"}}
  /\ Len(tableRows) = Cardinality(Range(tableRows))
  /\ Len(tableRows) = Cardinality(DOMAIN rows)
       - Cardinality({k \in DOMAIN rows :
            ~showAll /\ rows[k].container.State # "running"})

\* C3 witness: show-all is off, the store holds a running and a stopped
\* container, and the view shows only the running one.
C3_Witness ==
  /\ ~showAll
  /\ \E a \in DOMAIN rows : \E b \in DOMAIN rows :
       /\ rows[a].container.State = "running"
       /\ rows[b].container.State = "exited"
  /\ Len(tableRows) = 1

\* C4: the table cursor is the index of a view row, or -1 when the view is
\* empty.
C4_CursorInView ==
  IF Len(tableRows) = 0 THEN cursor = -1
  ELSE 0 <= cursor /\ cursor < Len(tableRows)

\* C1: when the start-up ping of a host has failed, the program has not
\* panicked or exited: only that host is given up.
C1_UnreachableHostGivenUpAlone ==
  unreachable # {} => phase \notin {"panic", "quit"}

\* C5: a sample that a live streamer hands over while its container ID is
\* in the store is applied to that row in the same step: whenever a
\* streamer moves on to its next frame, the row of its container changes.
C5_NoSampleDiscarded ==
  [][\A s \in Streamers :
       (Live(strm[s]) /\ strm'[s] = strm[s] + 1 /\ s[2] \in DOMAIN rows)
         => (s[2] \in DOMAIN rows' /\ rows'[s[2]].stats # rows[s[2]].stats)]_vars

\* C6: a visit to the log page never breaks the update chain of the list:
\* whenever the list page is in front of the running program, a tick is
\* armed and a container update is awaited or on its way to Update.
C6_ChainSurvivesLogView ==
  (phase = "run" /\ currentPage = "List")
    => (tickArmed /\ cwait + Cardinality(pending) >= 1)

\* the update m carries the container s
Carries(m, s) == \E i \in 1..Len(m) : m[i].Host = s[1] /\ m[i].ID = s[2]

\* C7: an update that a host watcher has emitted for container K leads to
\* K being in the store (nothing ever removes a container), as long as the
\* program runs.
C7_EmittedEventuallyStored ==
  \A s \in Streamers :
    (\E m \in pending : Carries(m, s)) ~> (s \in StoreKeys \/ phase # "run")

\* C8: the updates of one host watcher are applied in the order the watcher
\* sent them (the number of the last applied update of a host never goes
\* down), and so are the samples of one streamer (while a row keeps being
\* fed by the same streamer, the number of its last sample never goes down).
C8_ProducerOrder ==
  [][/\ \A h \in Hosts : lastVer'[h] >= lastVer[h]
     /\ \A id \in DOMAIN rows :
          (/\ rows[id].stats.from # "none"
           /\ rows'[id].stats.from = rows[id].stats.from)
            => rows'[id].stats.seq >= rows[id].stats.seq]_vars

\* C8 witness: the snapshot of a host and a later event update of the same
\* host have both been applied, and a row holds the second sample of a
\* streamer.
C8_Witness ==
  /\ \E h \in Hosts : lastVer[h] = 2
  /\ \E id \in DOMAIN rows : rows[id].stats.seq = 2

\* C9: after a cancel no producer has panicked by closing a channel that is
\* already closed or by sending on a closed channel.
C9_CancelIsClean ==
  ctxDone => crash \notin {"close of closed channel", "send on closed channel"}

\* C10: when the inspection of a container fails while a host's snapshot is
\* built, the watcher does not panic.
C10_SnapshotSkipsFailedInspect ==
  \A h \in Hosts : watcher[h].bad # <<>> => phase # "panic"

\* C11: a failed or dropped event subscription is recoverable: the program
\* has never panicked with the error of a subscription.
C11_SubscriptionFailureRecovered == ~(phase = "panic" /\ crash = "events")

\* C12: the UI is in Loading from the start until the first snapshot of any
\* host is applied: it is in Loading after a step exactly if it was before
\* and no update has been applied yet, the update that ends Loading is the
\* first one of its watcher (the snapshot), and Loading never comes back.
C12_LoadingUntilFirstSnapshot ==
  [][/\ loading' = (loading /\ \A h \in Hosts : lastVer'[h] = 0)
     /\ (loading /\ ~loading')
          => \E h \in Hosts : lastVer[h] = 0 /\ lastVer'[h] = 1]_vars

\* C12 witness: the first snapshot has been applied and the UI has left
\* Loading with the snapshot's containers in the store.
C12_Witness ==
  /\ ~loading
  /\ \E h \in Hosts : lastVer[h] = 1
  /\ rows # <<>>

\* the views updateInternalRows can compute in the current state
Views == updateInternalRows(rows, showAll, sortBy, sortAsc)

\* C13: computing the view twice from the same store and the same settings
\* gives the same row sequence: any two views the computation can produce
\* in a state are equal.
C13_ViewDeterministic ==
  \A v1 \in Views : \A v2 \in Views : v1 = v2

\* C14: the rows of a host are contiguous and the hosts come in ascending
\* lexicographic order: along the view the host never goes down.
C14_HostsGrouped ==
  LET HostRank(h) == IF h = "h1" THEN 1 ELSE 2
  IN \A i \in 1..Len(tableRows) : \A j \in 1..Len(tableRows) :
       i < j => HostRank(tableRows[i].Host) <= HostRank(tableRows[j].Host)

\* C15: every row of the view comes before the rows after it in the order
\* by the active field (name ascending, creation time descending, both
\* reversed when the direction is toggled) with ties broken by name
\* ascending and then by container ID ascending.
C15_ViewTotallyOrdered ==
  LET ClaimedBefore(a, b) ==
        LET nameUp == StrLess(a.Name, b.Name)
            nameDown == StrLess(b.Name, a.Name)
            tieBreak == nameUp \/ (a.Name = b.Name /\ StrLess(a.ID, b.ID))
        IN IF sortBy = "name"
           THEN IF a.Name # b.Name THEN (IF sortAsc THEN nameDown ELSE nameUp)
                ELSE StrLess(a.ID, b.ID)
           ELSE IF a.CreatedAt # b.CreatedAt
                THEN (IF sortAsc THEN a.CreatedAt < b.CreatedAt
                                 ELSE a.CreatedAt > b.CreatedAt)
                ELSE tieBreak
  IN \A i \in 1..Len(tableRows) : \A j \in 1..Len(tableRows) :
       i < j => ClaimedBefore(tableRows[i], tableRows[j])

\* C16: pressing the key of the active sort field flips the direction,
\* keeps the field and re-sorts in the same step (the new view is one that
\* the store sorts to under the new direction); pressing it again restores
\* the direction and the row order: every view the second press can
\* compute (any view of the store under the original direction) is the
\* view the user had before the first press.
C16_SortToggleRoundTrip ==
  [][(sortAsc' # sortAsc)
       => /\ sortBy' = sortBy
          /\ tableRows' \in updateInternalRows(rows, showAll, sortBy, ~sortAsc)
          /\ \A v \in updateInternalRows(rows', showAll', sortBy', ~sortAsc') :
               v = tableRows]_vars

\* C17: pressing the key of another sort field makes that field active
\* with its default direction: after a step that changes the sort field
\* the view is in the default direction of the new field (names ascending,
\* creation times descending).
C17_NewFieldDefaultDirection ==
  [][(sortBy' # sortBy) =>
       \A i \in 1..Len(tableRows') : \A j \in 1..Len(tableRows') :
         i < j => IF sortBy' = "name"
                  THEN ~StrLess(tableRows'[j].Name, tableRows'[i].Name)
                  ELSE tableRows'[i].CreatedAt >= tableRows'[j].CreatedAt]_vars

\* C19: applying a snapshot that is already in the store (the same message
\* a second time) leaves the store and the view as they are.
C19_SnapshotIdempotent ==
  [][(UIContainers /\ rows' = rows) => tableRows' = tableRows]_vars

\* C18: adding a container that sorts after the row under the cursor leaves
\* the selected container unchanged: when a step adds a container to the
\* store, the cursor was on a row and the new row of the view lies after the
\* cursor, the row at the cursor is the one it was.
C18_InsertAfterKeepsSelection ==
  [][(/\ CursorOnRow
      /\ \E i \in 1..Len(tableRows') : tableRows'[i].ID \notin DOMAIN rows
      /\ \A i \in 1..Len(tableRows') :
           tableRows'[i].ID \notin DOMAIN rows => i > cursor + 1)
       => tableRows'[cursor + 1] = tableRows[cursor + 1]]_vars

\* C20: a stat sample whose container ID is not in the store is dropped.
\* Whenever a streamer hands over a sample while its container ID is not in
\* the store, the ID is still not in the store afterwards; when every
\* sample handed over in a step is of that kind, the store and the view are
\* unchanged; nothing is buffered: a row that enters the store has zero
\* stats, and the stats of a row change only to those of a sample handed
\* over in the same step.
C20_UnknownSampleDropped ==
  [][LET took(s) == Live(strm[s]) /\ strm'[s] = strm[s] + 1
     IN /\ \A s \in Streamers :
             (took(s) /\ s[2] \notin DOMAIN rows) => s[2] \notin DOMAIN rows'
        /\ ((\E s \in Streamers : took(s))
              /\ \A s \in Streamers : took(s) => s[2] \notin DOMAIN rows)
             => (rows' = rows /\ tableRows' = tableRows)
        /\ \A id \in DOMAIN rows' \ DOMAIN rows : rows'[id].stats = ZeroStats
        /\ \A id \in DOMAIN rows' \cap DOMAIN rows :
             rows'[id].stats # rows[id].stats
               => \/ rows'[id].stats = ZeroStats
                  \/ \E s \in Streamers :
                       /\ took(s) /\ s[2] = id
                       /\ rows'[id].stats.from = s[1]
                       /\ rows'[id].stats.seq = strm[s]]_vars

\* C20 witness: the stats waiter has received nothing, the streamer of
\* container <<1>> of h1 has handed over a sample, and the row of that
\* container, stored once by the snapshot of h1 and never replaced, has zero
\* stats: a tick took the sample before the row existed.
C20_Witness ==
  /\ swait = 1
  /\ strm[<<"h1", <<1>>>>] > 1
  /\ lastVer["h1"] = 1 /\ lastVer["h2"] = 0
  /\ <<1>> \in DOMAIN rows
  /\ rows[<<1>>].container.Host = "h1"
  /\ rows[<<1>>].stats = ZeroStats

\* C21: in every store state the CPU fraction and the memory fraction of
\* each row lie within [0,1] (0..100 hundredths), whatever percentages the
\* stream reports.
C21_FractionsClamped ==
  \A id \in DOMAIN rows :
    /\ rows[id].stats.cpuPercent \in 0..100
    /\ rows[id].stats.memPercent \in 0..100

\* C22: when a sample's cumulative received (or sent) counter is lower
\* than the previous sample's and a rate is computed for it, the
\* instantaneous rate is 0: the stored rate does not go up and does not go
\* below zero.
C22_CounterRegressionZeroRate ==
  [][\A id \in DOMAIN rows \cap DOMAIN rows' :
       LET old == rows[id].stats
           new == rows'[id].stats
           rated == /\ new.seq > old.seq
                    /\ old.lastUpdate # 0
                    /\ new.lastUpdate - old.lastUpdate >= TicksPerSecond
       IN /\ (rated /\ new.totalBytesReceived < old.totalBytesReceived)
               => new.bytesReceivedPerSecond \in 0..old.bytesReceivedPerSecond
          /\ (rated /\ new.totalBytesSent < old.totalBytesSent)
               => new.bytesSentPerSecond \in 0..old.bytesSentPerSecond]_vars

\* C23: the rates are smoothed with weight 0.3 for the new value: for a
\* sample whose counters did not go down and for which a rate is computed,
\* the stored rate is 0.3 * instantaneous rate + 0.7 * previous rate (from
\* 100 B/s and an instantaneous rate of 0: 70 B/s).
C23_SmoothingWeight ==
  [][\A id \in DOMAIN rows \cap DOMAIN rows' :
       LET old == rows[id].stats
           new == rows'[id].stats
           dt == (new.lastUpdate - old.lastUpdate) \div TicksPerSecond
           rated == new.seq > old.seq /\ old.lastUpdate # 0 /\ dt >= 1
           instRx == (new.totalBytesReceived - old.totalBytesReceived) \div dt
           instTx == (new.totalBytesSent - old.totalBytesSent) \div dt
       IN /\ (rated /\ new.totalBytesReceived >= old.totalBytesReceived)
               => new.bytesReceivedPerSecond =
                    (3 * instRx + 7 * old.bytesReceivedPerSecond) \div 10
          /\ (rated /\ new.totalBytesSent >= old.totalBytesSent)
               => new.bytesSentPerSecond =
                    (3 * instTx + 7 * old.bytesSentPerSecond) \div 10]_vars

\* C24: when the engine has destroyed container K and everything the
\* watchers emitted has been applied (every watcher waits for events, no
\* update is on its way to Update), K is in neither the store nor the
\* view, also when show-all is on.
C24_DestroyedRemoved ==
  \A s \in Eventful :
    (/\ engState[s] = "removed"
     /\ phase = "run"
     /\ \A h \in Hosts : watcher[h].pc = "events" /\ watcher[h].evq = <<>>
     /\ pending = {})
      => /\ s \notin StoreKeys
         /\ \A i \in 1..Len(tableRows) :
              <<tableRows[i].Host, tableRows[i].ID>> # s

\* C25: a new log line scrolls the viewport to the bottom if and only if
\* the viewport was at the bottom immediately before the line was
\* appended; otherwise the offset is left unchanged.
C25_FollowOnlyAtBottom ==
  [][(logPage'.ch = logPage.ch /\ logPage'.lines # logPage.lines)
       => /\ AtBottom(logPage) => logPage'.YOffset = MaxYOffset(logPage')
          /\ ~AtBottom(logPage) => logPage'.YOffset = logPage.YOffset]_vars

\* C25 witness: the content is longer than the viewport and the viewport
\* is not at the bottom: the user scrolled up and the page holds more lines
\* than it shows.
C25_Witness ==
  /\ currentPage = "Log"
  /\ Len(logPage.lines) = MaxLines + 1
  /\ ~AtBottom(logPage)
  /\ logPage.YOffset > 0

\* C30: the log page keeps at most the last N lines (here N = 2): the
\* held content never grows beyond N lines.
C30_LogContentBounded ==
  LET N == 2 IN Len(logPage.lines) <= N

\* C27: at any time at most one log streamer is live (running with a
\* context that has not been cancelled).
C27_OneLogStreamer ==
  Cardinality({i \in 1..MaxStreams : logs[i].pc = "live" /\ ~logs[i].ctx}) <= 1

\* C26: log streaming is active only while the log page is shown: while
\* the page is the container list, every log stream that still runs has
\* had its context cancelled.
C26_LogStreamOnlyInLogView ==
  currentPage = "List"
    => \A i \in 1..MaxStreams : logs[i].pc = "live" => logs[i].ctx

\* C28: a log stream closes cleanly: no empty line is ever appended to the
\* content, and when the zero entry read from a closed channel is handed
\* to Update no waitForLogs command is armed on a closed channel.
C28_LogCloseIsClean ==
  [][/\ \A n \in 1..Len(logPage'.lines) : logPage'.lines[n] # <<>>
     /\ (\E msg \in BagToSet(lmsgs) :
           msg.Message = <<>> /\ lmsgs' = lmsgs (-) SetToBag({msg}))
          => \A i \in 1..MaxStreams :
               logs[i].pc = "closed" => lwait'[i] <= lwait[i]]_vars

\* C29: pressing the Open key when no row is selected (empty view, or
\* cursor outside the rows) is a silent no-op: the list page is unchanged
\* and the program keeps running.
C29_OpenWithoutRowIsNoOp ==
  [][(UIKeyOpen /\ ~CursorOnRow)
       => (phase' = "run" /\ crash' = "" /\ listVars' = listVars)]_vars

\* C31: a stats streamer forwards a decoded frame if and only if its CPU
\* value or its memory usage is greater than 0: the samples a streamer
\* sends are, in order, exactly the decoded frames with CPU > 0 or memory
\* usage > 0, and the sample a live streamer holds is the one of them at
\* its position.
C31_ForwardIffNonZero ==
  LET NonZero(f) == f.cpu > 0 \/ f.mem > 0
      kept == SelectSeq(Decoded, NonZero)
  IN /\ Len(FrameCPU) = Len(kept)
     /\ \A s \in Streamers :
          Live(strm[s]) =>
            /\ strm[s] <= Len(kept)
            /\ Held(s).CPUPercent = kept[strm[s]].cpu
            /\ Held(s).MemoryPercent = kept[strm[s]].memPercent
            /\ Held(s).Time = kept[strm[s]].time

\* C31 witness: a streamer has dropped the empty frame and holds the frame
\* after it, whose CPU value is 0 and whose memory usage is positive.
C31_Witness ==
  \E s \in Streamers :
    /\ strm[s] = 2
    /\ Held(s).CPUPercent = 0
    /\ Held(s).Time = Decoded[3].time

\* C32: if inspecting the container named by an event fails, the watcher
\* swallows the error: in the step that takes the event it emits nothing
\* (it holds no update to send and has sent no more than before), the
\* program does not panic, and the watcher is back in its event loop.
C32_EventInspectErrorSwallowed ==
  [][\A h \in Hosts :
       (watcher'[h].skip # watcher[h].skip \/
          (watcher[h].pc = "events" /\ watcher[h].evq # <<>>
             /\ watcher'[h].evq = Tail(watcher[h].evq)
             /\ watcher'[h].pc # "evt"))
         => /\ phase' = "run"
            /\ watcher'[h].pc = "events"
            /\ watcher'[h].sent = watcher[h].sent
            /\ watcher'[h].msg = watcher[h].msg
            /\ pending' = pending]_vars

\* C32 witness: the inspection for an event of a host failed and the
\* watcher of that host waits for the next event while the program runs.
C32_Witness ==
  \E h \in Hosts :
    /\ watcher[h].skip # <<>>
    /\ watcher[h].pc = "events"
    /\ watcher[h].evq = <<>>
    /\ phase = "run"

\* C33: draining stat samples on a tick changes only the stats of the rows
\* whose ID matches a sample: in a step that applies a sample the store
\* keeps its IDs and containers, every row whose stats changed holds the
\* stats of a sample of its ID, and the view rows, their order and the
\* sort setting are unchanged.
C33_TickKeepsView ==
  [][(\E id \in DOMAIN rows \cap DOMAIN rows' :
        rows'[id].stats # rows[id].stats /\ rows'[id].stats # ZeroStats)
       => /\ DOMAIN rows' = DOMAIN rows
          /\ \A id \in DOMAIN rows :
               /\ rows'[id].container = rows[id].container
               /\ rows'[id].stats # rows[id].stats
                    => \E x \in ScriptSamples :
                         /\ x.ID = id
                         /\ rows'[id].stats.seq = x.seq
                         /\ rows'[id].stats.from = x.src
          /\ tableRows' = tableRows
          /\ cache' = cache
          /\ sortBy' = sortBy /\ sortAsc' = sortAsc]_vars

\* C33 witness: the view is sorted by status and shows two rows with the
\* same creation time, and a sample has been applied to one of them.
C33_Witness ==
  /\ sortBy = "status"
  /\ Len(tableRows) >= 2
  /\ \E i \in 1..Len(tableRows) : \E j \in 1..Len(tableRows) :
       /\ i # j
       /\ tableRows[i].CreatedAt = tableRows[j].CreatedAt
       /\ tableRows[i].ID \in DOMAIN rows
       /\ rows[tableRows[i].ID].stats.seq > 0

\* C34: the page state machine: the program starts on the container list;
\* the page becomes the log view only in the step that takes a
\* show-container message; on the log view the back key leads to the list
\* and nowhere else, on the list it leaves the page unchanged; the quit key
\* ends the program from either page.
C34_PageStateMachine ==
  /\ currentPage = "List"
  /\ [](phase = "run" =>
          /\ ENABLED (KeyQuit /\ phase' = "quit")
          /\ ~ENABLED (KeyQuit /\ phase' # "quit")
          /\ ~ENABLED (KeyBack /\ currentPage' # "List")
          /\ currentPage = "Log" => ENABLED (KeyBack /\ currentPage' = "List"))
  /\ [][/\ (currentPage' = "Log" /\ currentPage # "Log")
             => BagCardinality(showPend') = BagCardinality(showPend) - 1
        /\ (currentPage' = "List" /\ currentPage # "List")
             => logs'[logPage.ch].ctx]_vars

\* C34 witness: the user has opened a log view, gone back to the list (the
\* stream of the page is cancelled) and quit from there.
C34_Witness ==
  /\ phase = "quit"
  /\ currentPage = "List"
  /\ logPage # NoLogPage
  /\ logs[logPage.ch].ctx

\* C35: the per-tick drain of pending stat samples terminates in every
\* reachable state, also after the stats channel has been closed by
\* cancellation: no tick leaves the update loop inside the drain.
C35_DrainTerminates == phase # "hang"

\* C36: after a window resize the five flexible columns (NAME, CPU, MEMORY,
\* STATUS, NETWORK IO) all have the width (table width minus the sum of
\* the fixed columns' widths) / 5, whichever column carries the sort arrow.
C36_FlexibleColumnsEqual ==
  [][winSize' # winSize =>
       LET fixed == {i \in 1..Len(cols') : cols'[i].Title \notin flexibleColumns}
           RECURSIVE Sum(_)
           Sum(I) == IF I = {} THEN 0
                     ELSE LET i == CHOOSE x \in I : TRUE
                          IN cols'[i].Width + Sum(I \ {i})
       IN \A i \in 1..Len(cols') :
            cols'[i].Title \in flexibleColumns
              => cols'[i].Width = GoDiv(vpWidth' - Sum(fixed), 5)]_vars

\* C37: at every moment at most one read is outstanding on the
\* container-updates channel: the waitForContainerUpdate commands that
\* block on the channel and the updates that such commands have received
\* and not yet handed to Update are at most one together.
C37_OneContainerReader == cwait + Cardinality(pending) <= 1

\* C37 witness: the snapshot and an event update of a host have been
\* applied, and the successor of their readers waits on the channel.
C37_Witness ==
  /\ phase = "run"
  /\ cwait = 1
  /\ pending = {}
  /\ \E h \in Hosts : lastVer[h] >= 2

\* C38: applying a containers message replaces exactly the rows whose ID
\* appears in the message, each by a fresh row with zero stats; every row
\* whose ID is not in the message keeps its container, stats and cache.
C38_ContainersFrame ==
  [][\A h \in Hosts : \A msg \in SnapshotMsgs(h, 0) \cup EventMsgs(h, 0) :
       ListContainers(msg) =>
         LET ids == {msg[i].ID : i \in 1..Len(msg)}
         IN /\ DOMAIN rows' = DOMAIN rows \cup ids
            /\ \A id \in ids :
                 /\ rows'[id].stats = ZeroStats
                 /\ \E i \in 1..Len(msg) : rows'[id].container = msg[i]
            /\ \A id \in DOMAIN rows \ ids :
                 /\ rows'[id] = rows[id]
                 /\ cache'[id] = cache[id]]_vars

\* C39: every log entry appended to the content of the log view opened for
\* container K has ContainerID K: every line of the page's content was read
\* from a stream of the page's container.
C39_LogLinesOfOwnContainer ==
  \A n \in 1..Len(logPage.lines) :
    logs[logPage.lines[n][1]].cid = logPage.container

\* C40: UpdateViewport renders only the row indices i with start <= i < end,
\* where 0 <= start and end <= len(rows), and at most 2 * viewport height
\* rows, for every cursor that can be reached (-1 and a cursor beyond the
\* last row included): every rendered index is an index of the rows.
C40_RenderedWindowInRows ==
  LET rendered == {i \in start..(end - 1) : TRUE}
  IN /\ 0 <= start
     /\ end <= Len(tableRows)
     /\ Cardinality(rendered) <= 2 * vpHeight
     /\ \A i \in rendered : 0 <= i /\ i < Len(tableRows)

\* C40 witness: the view has lost rows while the cursor stayed beyond the
\* last row, the viewport is one line high, and the window is empty.
C40_Witness ==
  /\ Len(tableRows) >= 1
  /\ cursor >= Len(tableRows)
  /\ vpHeight = 1
  /\ start >= end

====
